---- MODULE Spec2Model ----
(***************************************************************************)
(* Route Navigator (bestpath.py): the weighted graph built by add_c and    *)
(* add_bidir_edge, the five path algorithms, the weather-risk table and    *)
(* the /route request handler.                                             *)
(*                                                                         *)
(* Units.  Distances and costs are integers counting 0.0025 mile, so the   *)
(* 0.01 mile floor of add_bidir_edge is 4 units.  Elevations are integers  *)
(* counting 4.02335 m (= 0.0025 mile at 1609.34 m per mile), so that       *)
(* delta_miles, in cost units, is the plain difference of two elevations.  *)
(* map_dist * (1 + delta_miles / map_dist) is computed exactly, as         *)
(* map_dist + delta_miles.  Location ids are integers; their order stands  *)
(* for the order of the id strings.  Dates are integers in string order,   *)
(* 0 being the empty string.  Risk values are even integers, so that the   *)
(* division by 2.0 in edge_risk is exact.                                  *)
(***************************************************************************)
EXTENDS Integers, Sequences, FiniteSets, TLC

VARIABLES cities, adj, risk, dates, pc, resp, bd

vars == <<cities, adj, risk, dates, pc, resp, bd>>

\* ---------------------------------------------------------------- bounds
MaxEdges == 3
MaxRecords == 4

\* ------------------------------------------------------------- constants
FLOOR == 4
\* 0.01 mile is FLOOR units
UNITS_PER_MILE == 100 * FLOOR
RISK_WEIGHT == 20
INF == 1000000
None == 0 - 1

\* ---------------------------------------------------------------- inputs
Ids == {1, 2, 3}
LoadIds == {1, 2}
LoadElevs == {0, 1, None}
LoadDists == {0, 1, 9}

\* ------------------------------------------------------------- utilities
Max(a, b) == IF a >= b THEN a ELSE b

Range(s) == {s[i] : i \in 1..Len(s)}

RECURSIVE SumSeq(_)
SumSeq(s) == IF s = <<>> THEN 0 ELSE s[1] + SumSeq(Tail(s))

Reverse(s) == [i \in 1..Len(s) |-> s[Len(s) + 1 - i]]

\* dict.get(k, default) on a dict modelled as a function
Get(d, k, default) == IF k \in DOMAIN d THEN d[k] ELSE default

\* d[k] = v on a dict modelled as a function
Put(d, k, v) == [x \in (DOMAIN d) \cup {k} |-> IF x = k THEN v ELSE d[x]]

\* ----------------------------------------------------------------- Graph
\* self.adj is an insertion-ordered dict: a sequence of <<key, edge list>>
AdjKeys == {adj[i][1] : i \in 1..Len(adj)}

KeysOf(a) == {a[i][1] : i \in 1..Len(a)}

\* self.adj.get(u, [])
AdjGetIn(a, u) ==
    IF u \in KeysOf(a) THEN a[CHOOSE i \in 1..Len(a) : a[i][1] = u][2] ELSE <<>>

AdjGet(u) == AdjGetIn(adj, u)

\* self.adj[u] on the defaultdict: a missing key is inserted with []
AdjTouch(a, u) == IF u \in KeysOf(a) THEN a ELSE Append(a, <<u, <<>>>>)

\* self.adj[u].append(e)
AdjAppend(a, u, e) ==
    LET t == AdjTouch(a, u)
    IN [i \in 1..Len(t) |-> IF t[i][1] = u THEN <<u, Append(t[i][2], e)>> ELSE t[i]]

Edge(src, dst, map_dist, real_dist) ==
    [src |-> src, dst |-> dst, map_dist |-> map_dist, real_dist |-> real_dist]

\* map_dist * (1 + tan), tan = delta / map_dist, or 0.0 when map_dist = 0
Scaled(map_dist, delta) == IF map_dist # 0 THEN map_dist + delta ELSE 0

DeltaMiles(A, B) == IF A # None /\ B # None THEN B - A ELSE 0

real_ab(A, B, map_dist) == Max(Scaled(map_dist, DeltaMiles(A, B)), FLOOR)

\* mutant: the slope is not negated for the way back
real_ba_same(A, B, map_dist) == real_ab(A, B, map_dist)

real_ba(A, B, map_dist) == Max(Scaled(map_dist, 0 - DeltaMiles(A, B)), FLOOR)

NumEdges == SumSeq([i \in 1..Len(adj) |-> Len(adj[i][2])])

add_c(cid, sea_level_m) == cities' = Put(cities, cid, sea_level_m)

\* mutant: only the connection src -> dst is stored
add_edge_oneway(src, dst, map_dist) ==
    IF src \notin DOMAIN cities \/ dst \notin DOMAIN cities
    THEN adj' = adj
    ELSE adj' = AdjAppend(adj, src,
                          Edge(src, dst, map_dist, real_ab(cities[src], cities[dst], map_dist)))

add_bidir_edge(src, dst, map_dist) ==
    IF src \notin DOMAIN cities \/ dst \notin DOMAIN cities
    THEN adj' = adj
    ELSE LET A == cities[src]
             B == cities[dst]
             a1 == AdjAppend(adj, src, Edge(src, dst, map_dist, real_ab(A, B, map_dist)))
         IN adj' = AdjAppend(a1, dst, Edge(dst, src, map_dist, real_ba(A, B, map_dist)))

\* --------------------------------------------------------------- helpers
RECURSIVE Walk(_, _, _, _)
\* the while loop of reconstruct: path is built from dest backwards
Walk(parent, start, cur, path) ==
    IF cur = None THEN path
    ELSE IF cur = start THEN Append(path, cur)
    ELSE Walk(parent, start, Get(parent, cur, None), Append(path, cur))

\* mutant: the path is not reversed, the walk's end is compared with start
reconstruct_fwd(parent, start, dest) ==
    IF dest = start THEN <<start>>
    ELSE IF dest \notin DOMAIN parent THEN <<>>
    ELSE LET path == Walk(parent, start, dest, <<>>)
         IN IF path # <<>> /\ path[Len(path)] = start THEN path ELSE <<>>

\* mutant: neither the membership guard nor the final check
reconstruct_unguarded(parent, start, dest) ==
    IF dest = start THEN <<start>>
    ELSE Reverse(Walk(parent, start, dest, <<>>))

reconstruct(parent, start, dest) ==
    IF dest = start THEN <<start>>
    ELSE IF dest \notin DOMAIN parent THEN <<>>
    ELSE LET path == Reverse(Walk(parent, start, dest, <<>>))
         IN IF path # <<>> /\ path[1] = start THEN path ELSE <<>>

\* ------------------------------------------------------------------- BFS
RECURSIVE BfsScan(_, _, _, _)
\* for e in self.adj.get(u, []): st = [q, visited, parent]
BfsScan(st, u, es, i) ==
    IF i > Len(es) THEN st
    ELSE IF es[i].dst \notin st.visited
         THEN BfsScan([q |-> Append(st.q, es[i].dst),
                       visited |-> st.visited \cup {es[i].dst},
                       parent |-> Put(st.parent, es[i].dst, u)], u, es, i + 1)
         ELSE BfsScan(st, u, es, i + 1)

RECURSIVE BfsLoop(_, _)
BfsLoop(st, dest) ==
    IF st.q = <<>> THEN st
    ELSE LET u == Head(st.q)
             st1 == [st EXCEPT !.q = Tail(st.q)]
         IN IF u = dest THEN st1 ELSE BfsLoop(BfsScan(st1, u, AdjGet(u), 1), dest)

bfs_path(start, dest) ==
    LET st == BfsLoop([q |-> <<start>>, visited |-> {start},
                       parent |-> Put(<<>>, start, None)], dest)
    IN reconstruct(st.parent, start, dest)

\* ------------------------------------------------------------------- DFS
RECURSIVE Dfs(_, _, _)
RECURSIVE DfsScan(_, _, _, _)
\* _dfs(u): st = [visited, parent, found]
Dfs(st, u, dest) ==
    IF st.found THEN st
    ELSE LET st1 == [st EXCEPT !.visited = st.visited \cup {u}]
         IN IF u = dest THEN [st1 EXCEPT !.found = TRUE]
            ELSE DfsScan(st1, u, dest, 1)

DfsScan(st, u, dest, i) ==
    LET es == AdjGet(u)
    IN IF i > Len(es) THEN st
       ELSE IF es[i].dst \notin st.visited
            THEN DfsScan(Dfs([st EXCEPT !.parent = Put(st.parent, es[i].dst, u)],
                             es[i].dst, dest), u, dest, i + 1)
            ELSE DfsScan(st, u, dest, i + 1)

dfs_path(start, dest) ==
    LET st == Dfs([visited |-> {}, parent |-> Put(<<>>, start, None), found |-> FALSE],
                  start, dest)
    IN reconstruct(st.parent, start, dest)

\* ------------------------------------------------- path inside a tree
RECURSIVE TreeScan(_, _, _, _)
TreeScan(st, u, vs, i) ==
    IF i > Len(vs) THEN st
    ELSE IF vs[i] \notin st.visited
         THEN TreeScan([q |-> Append(st.q, vs[i]),
                        visited |-> st.visited \cup {vs[i]},
                        parent |-> Put(st.parent, vs[i], u)], u, vs, i + 1)
         ELSE TreeScan(st, u, vs, i + 1)

RECURSIVE TreeLoop(_, _, _)
TreeLoop(st, tadj, dest) ==
    IF st.q = <<>> THEN st
    ELSE LET u == Head(st.q)
             st1 == [st EXCEPT !.q = Tail(st.q)]
         IN IF u = dest THEN st1
            ELSE TreeLoop(TreeScan(st1, u, Get(tadj, u, <<>>), 1), tadj, dest)

\* mutant: the search runs over the whole graph, not over the tree
tree_path_whole_graph(tadj, start, dest) == bfs_path(start, dest)

tree_path_in_adj(tadj, start, dest) ==
    LET st == TreeLoop([q |-> <<start>>, visited |-> {start},
                        parent |-> Put(<<>>, start, None)], tadj, dest)
    IN reconstruct(st.parent, start, dest)

RECURSIVE MstAdj(_, _, _)
\* mst_adj[e.src].append(e.dst); mst_adj[e.dst].append(e.src)
MstAdj(mst, i, acc) ==
    IF i > Len(mst) THEN acc
    ELSE LET e == mst[i]
             a1 == Put(acc, e.src, Append(Get(acc, e.src, <<>>), e.dst))
             a2 == Put(a1, e.dst, Append(Get(a1, e.dst, <<>>), e.src))
         IN MstAdj(mst, i + 1, a2)

\* ------------------------------------------------------------------ Prim
\* comparison of the heap entries (real_dist, src, dst)
TupLT(a, b) ==
    \/ a[1] < b[1]
    \/ a[1] = b[1] /\ a[2] < b[2]
    \/ a[1] = b[1] /\ a[2] = b[2] /\ a[3] < b[3]

\* mutant: equal costs are served in insertion order
HeapTopFifo(pq) ==
    CHOOSE i \in 1..Len(pq) :
        /\ \A j \in 1..Len(pq) : pq[i][1] <= pq[j][1]
        /\ \A j \in 1..(i - 1) : pq[j][1] # pq[i][1]

\* heapq.heappop: index, in insertion order, of a smallest entry
HeapTop(pq) ==
    CHOOSE i \in 1..Len(pq) :
        \A j \in 1..Len(pq) : ~TupLT(pq[j], pq[i]) /\ (pq[j] = pq[i] => i <= j)

RemoveAt(s, i) == SubSeq(s, 1, i - 1) \o SubSeq(s, i + 1, Len(s))

RECURSIVE PrimPush(_, _, _, _)
\* for ne in self.adj.get(v, []): if ne.dst not in visited: heappush
PrimPush(pq, es, i, visited) ==
    IF i > Len(es) THEN pq
    ELSE IF es[i].dst \notin visited
         THEN PrimPush(Append(pq, <<es[i].real_dist, es[i].src, es[i].dst>>), es, i + 1, visited)
         ELSE PrimPush(pq, es, i + 1, visited)

\* for e in self.adj[u]: if e.dst == v: mst.append(e); break
PrimTake(mst, es, v) ==
    IF \E i \in 1..Len(es) : es[i].dst = v
    THEN Append(mst, es[CHOOSE i \in 1..Len(es) :
                          es[i].dst = v /\ \A j \in 1..(i - 1) : es[j].dst # v])
    ELSE mst

\* mutant: the edges of start are read with self.adj[start]
PrimFirstIndexed(start) == [es |-> AdjGet(start), touched |-> {start}]

\* the edges of start pushed first, read with self.adj.get(start, [])
PrimFirst(start) == [es |-> AdjGet(start), touched |-> {}]

RECURSIVE PrimLoop(_)
\* st = [visited, pq, mst, pops, touched]; pops logs every heappop,
\* touched collects the keys read with self.adj[...]
PrimLoop(st) ==
    IF st.pq = <<>> \/ Cardinality(st.visited) >= Cardinality(DOMAIN cities) THEN st
    ELSE LET i == HeapTop(st.pq)
             u == st.pq[i][2]
             v == st.pq[i][3]
             pq1 == RemoveAt(st.pq, i)
             pops1 == Append(st.pops, [frontier |-> st.pq, idx |-> i])
         IN IF v \in st.visited
            THEN PrimLoop([st EXCEPT !.pq = pq1, !.pops = pops1])
            ELSE LET visited1 == st.visited \cup {v}
                 IN PrimLoop([visited |-> visited1,
                              pq |-> PrimPush(pq1, AdjGet(v), 1, visited1),
                              mst |-> PrimTake(st.mst, AdjGet(u), v),
                              pops |-> pops1,
                              touched |-> st.touched \cup {u}])

prim_run(start) ==
    IF start \notin DOMAIN cities
    THEN [visited |-> {}, pq |-> <<>>, mst |-> <<>>, pops |-> <<>>, touched |-> {}]
    ELSE LET f == PrimFirst(start)
         IN PrimLoop([visited |-> {start}, pq |-> PrimPush(<<>>, f.es, 1, {}),
                      mst |-> <<>>, pops |-> <<>>, touched |-> f.touched])

prim_mst_edges(start) == prim_run(start).mst

prim_path(start, dest) ==
    tree_path_in_adj(MstAdj(prim_mst_edges(start), 1, <<>>), start, dest)

\* --------------------------------------------------------------- Kruskal
RECURSIVE find(_, _)
\* find with path compression: the new parent map and the root
find(parent, x) ==
    IF parent[x] # x
    THEN LET r == find(parent, parent[x])
         IN [parent |-> [r.parent EXCEPT ![x] = r.root], root |-> r.root]
    ELSE [parent |-> parent, root |-> x]

\* uf = [parent, rank]
union(uf, a, b) ==
    LET fa == find(uf.parent, a)
        fb == find(fa.parent, b)
        ra == fa.root
        rb == fb.root
        p == fb.parent
    IN IF ra = rb THEN [uf EXCEPT !.parent = p]
       ELSE IF uf.rank[ra] < uf.rank[rb] THEN [uf EXCEPT !.parent = [p EXCEPT ![ra] = rb]]
       ELSE IF uf.rank[ra] > uf.rank[rb] THEN [uf EXCEPT !.parent = [p EXCEPT ![rb] = ra]]
       ELSE [parent |-> [p EXCEPT ![rb] = ra],
             rank |-> [uf.rank EXCEPT ![ra] = uf.rank[ra] + 1]]

RECURSIVE AllEdges(_)
\* for u in self.adj: for e in self.adj[u]
AllEdges(i) == IF i > Len(adj) THEN <<>> ELSE adj[i][2] \o AllEdges(i + 1)

RECURSIVE Dedupe(_, _, _, _)
\* one edge per unordered pair, the first met
Dedupe(es, i, seen, acc) ==
    IF i > Len(es) THEN acc
    ELSE LET key == {es[i].src, es[i].dst}
         IN IF key \notin seen
            THEN Dedupe(es, i + 1, seen \cup {key}, Append(acc, es[i]))
            ELSE Dedupe(es, i + 1, seen, acc)

RECURSIVE StableSort(_)
\* edges.sort(key=real_dist): stable, ascending
StableSort(es) ==
    IF es = <<>> THEN <<>>
    ELSE LET m == CHOOSE i \in 1..Len(es) :
                      /\ \A j \in 1..Len(es) : es[i].real_dist <= es[j].real_dist
                      /\ \A j \in 1..(i - 1) : es[j].real_dist # es[i].real_dist
         IN <<es[m]>> \o StableSort(RemoveAt(es, m))

RECURSIVE KruskalLoop(_, _, _, _)
KruskalLoop(es, i, uf, mst) ==
    IF i > Len(es) THEN mst
    ELSE LET fa == find(uf.parent, es[i].src)
             fb == find(fa.parent, es[i].dst)
             uf1 == [uf EXCEPT !.parent = fb.parent]
         IN IF fa.root # fb.root
            THEN KruskalLoop(es, i + 1, union(uf1, es[i].src, es[i].dst), Append(mst, es[i]))
            ELSE KruskalLoop(es, i + 1, uf1, mst)

kruskal_mst_edges ==
    KruskalLoop(StableSort(Dedupe(AllEdges(1), 1, {}, <<>>)), 1,
                [parent |-> [c \in DOMAIN cities |-> c], rank |-> [c \in DOMAIN cities |-> 0]],
                <<>>)

kruskal_path(start, dest) ==
    tree_path_in_adj(MstAdj(kruskal_mst_edges, 1, <<>>), start, dest)

\* ---------------------------------------------------------- Bellman-Ford
RECURSIVE RelaxOnce(_, _, _)
\* mutant: a distance is set when first reached and never improved
RelaxOnce(st, es, i) ==
    IF i > Len(es) THEN st
    ELSE LET e == es[i]
         IN IF st.dist[e.src] # INF /\ st.dist[e.dst] = INF
            THEN RelaxOnce([dist |-> [st.dist EXCEPT ![e.dst] = st.dist[e.src] + e.real_dist],
                            pred |-> [st.pred EXCEPT ![e.dst] = e.src],
                            updated |-> TRUE], es, i + 1)
            ELSE RelaxOnce(st, es, i + 1)

RECURSIVE Relax(_, _, _)
\* one round over all_edges: st = [dist, pred, updated]
Relax(st, es, i) ==
    IF i > Len(es) THEN st
    ELSE LET e == es[i]
         IN IF st.dist[e.src] # INF /\ st.dist[e.src] + e.real_dist < st.dist[e.dst]
            THEN Relax([dist |-> [st.dist EXCEPT ![e.dst] = st.dist[e.src] + e.real_dist],
                        pred |-> [st.pred EXCEPT ![e.dst] = e.src],
                        updated |-> TRUE], es, i + 1)
            ELSE Relax(st, es, i + 1)

RECURSIVE Rounds(_, _, _)
\* for _ in range(len(self.cities) - 1), break on a round without update
Rounds(st, es, n) ==
    IF n <= 0 THEN st
    ELSE LET st1 == Relax([st EXCEPT !.updated = FALSE], es, 1)
         IN IF ~st1.updated THEN st1 ELSE Rounds(st1, es, n - 1)

bellman_ford(start) ==
    LET dist0 == [c \in DOMAIN cities |-> INF]
        pred0 == [c \in DOMAIN cities |-> None]
    IN IF start \notin DOMAIN cities
       THEN [dist |-> dist0, pred |-> pred0, updated |-> FALSE]
       ELSE Rounds([dist |-> [dist0 EXCEPT ![start] = 0], pred |-> pred0, updated |-> FALSE],
                   AllEdges(1), Cardinality(DOMAIN cities) - 1)

bellman_path(start, dest) ==
    LET bf == bellman_ford(start)
    IN IF Get(bf.dist, dest, INF) = INF THEN <<>>
       ELSE reconstruct(bf.pred, start, dest)

\* ----------------------------------------------------------- WeatherRisk
RECURSIVE LoadRows(_, _, _)
\* the reader loop of WeatherRisk.load: a row is <<city_id, date, risk>>,
\* city_id 0 and date 0 being the empty string; wr = [risk, dates]
LoadRows(rows, i, wr) ==
    IF i > Len(rows) THEN wr
    ELSE LET cid == rows[i][1]
             date == rows[i][2]
             val == rows[i][3]
         IN IF cid = 0 THEN LoadRows(rows, i + 1, wr)
            ELSE LoadRows(rows, i + 1,
                   [risk |-> Put(wr.risk, cid, Put(Get(wr.risk, cid, <<>>), date, val)),
                    dates |-> IF date # 0 /\ date \notin Range(wr.dates)
                              THEN Append(wr.dates, date) ELSE wr.dates])

RECURSIVE SortAsc(_)
\* self.dates.sort()
SortAsc(ds) ==
    IF ds = <<>> THEN <<>>
    ELSE LET m == CHOOSE i \in 1..Len(ds) :
                      /\ \A j \in 1..Len(ds) : ds[i] <= ds[j]
                      /\ \A j \in 1..(i - 1) : ds[j] # ds[i]
         IN <<ds[m]>> \o SortAsc(RemoveAt(ds, m))

load(rows) ==
    LET wr == LoadRows(rows, 1, [risk |-> risk, dates |-> dates])
    IN /\ risk' = wr.risk
       /\ dates' = SortAsc(wr.dates)

edge_risk(c1, c2, date) ==
    (Get(Get(risk, c1, <<>>), date, 0) + Get(Get(risk, c2, <<>>), date, 0)) \div 2

RECURSIVE DateTotalNoCheck(_, _, _, _)
\* mutant: a missing entry counts as 0.0 and the date stays feasible
DateTotalNoCheck(route, date, i, total) ==
    IF i > Len(route) - 1 THEN [ok |-> TRUE, total |-> total]
    ELSE DateTotalNoCheck(route, date, i + 1, total + edge_risk(route[i], route[i + 1], date))

RECURSIVE DateTotal(_, _, _, _)
\* the inner loop of best_date_for_path: [ok, total] of one date
DateTotal(route, date, i, total) ==
    IF i > Len(route) - 1 THEN [ok |-> TRUE, total |-> total]
    ELSE IF date \notin DOMAIN Get(risk, route[i], <<>>)
            \/ date \notin DOMAIN Get(risk, route[i + 1], <<>>)
         THEN [ok |-> FALSE, total |-> total]
         ELSE DateTotal(route, date, i + 1, total + edge_risk(route[i], route[i + 1], date))

RECURSIVE DateScan(_, _, _)
\* for date in wr.dates: best = [date, risk]
DateScan(route, k, best) ==
    IF k > Len(dates) THEN best
    ELSE LET r == DateTotal(route, dates[k], 1, 0)
         IN IF r.ok /\ r.total < best.risk
            THEN DateScan(route, k + 1, [date |-> dates[k], risk |-> r.total])
            ELSE DateScan(route, k + 1, best)

best_date_for_path(route) ==
    IF route = <<>> \/ Len(route) < 2 THEN [date |-> None, risk |-> 0]
    ELSE LET best == DateScan(route, 1, [date |-> None, risk |-> INF])
         IN IF best.date = None THEN [date |-> None, risk |-> 0] ELSE best

\* ------------------------------------------------------- route evaluation
edge_dist(u, v) ==
    LET eu == AdjGet(u)
        ev == AdjGet(v)
    IN IF \E i \in 1..Len(eu) : eu[i].dst = v
       THEN eu[CHOOSE i \in 1..Len(eu) :
                 eu[i].dst = v /\ \A j \in 1..(i - 1) : eu[j].dst # v].real_dist
       ELSE IF \E i \in 1..Len(ev) : ev[i].dst = u
       THEN ev[CHOOSE i \in 1..Len(ev) :
                 ev[i].dst = u /\ \A j \in 1..(i - 1) : ev[j].dst # u].real_dist
       ELSE 0

path_distance(route) ==
    SumSeq([i \in 1..(Len(route) - 1) |-> edge_dist(route[i], route[i + 1])])

AlgOrder == <<"BFS", "DFS", "PRIM", "KRUSKAL", "BELLMAN">>

RouteOf(algorithm, src, dst) ==
    IF algorithm = "BFS" THEN bfs_path(src, dst)
    ELSE IF algorithm = "DFS" THEN dfs_path(src, dst)
    ELSE IF algorithm = "PRIM" THEN prim_path(src, dst)
    ELSE IF algorithm = "KRUSKAL" THEN kruskal_path(src, dst)
    ELSE IF algorithm = "BELLMAN" THEN bellman_path(src, dst)
    ELSE <<>>

LabelOf(algorithm) ==
    IF algorithm = "BFS" THEN "BFS"
    ELSE IF algorithm = "DFS" THEN "DFS"
    ELSE IF algorithm = "PRIM" THEN "Prim MST"
    ELSE IF algorithm = "KRUSKAL" THEN "Kruskal MST"
    ELSE IF algorithm = "BELLMAN" THEN "Bellman-Ford"
    ELSE algorithm

\* score = total + 20.0 * risk, the risk term brought to cost units
Score(total, r) == total + RISK_WEIGHT * UNITS_PER_MILE * r

\* compute(algorithm) of handle_route; gas_used, the names and the segment
\* list are left out of the result
compute(algorithm, src, dst) ==
    LET route == RouteOf(algorithm, src, dst)
    IN IF route = <<>>
       THEN [ok |-> FALSE, label |-> LabelOf(algorithm), message |-> "No route found",
             route |-> <<>>, total_distance |-> 0, total_risk |-> 0,
             best_travel_date |-> None, score |-> 0]
       ELSE LET total == path_distance(route)
                b == best_date_for_path(route)
            IN [ok |-> TRUE, label |-> LabelOf(algorithm), message |-> "",
                route |-> route, total_distance |-> total, total_risk |-> b.risk,
                best_travel_date |-> b.date, score |-> Score(total, b.risk)]

\* compute(a) for the five algorithms in turn, as the BEST loop calls it
AllResults(src, dst) == [i \in 1..Len(AlgOrder) |-> compute(AlgOrder[i], src, dst)]

\* results: the keys, in insertion order, of the algorithms that succeeded
Succeeded(all) == SelectSeq(AlgOrder, LAMBDA a : all[CHOOSE i \in 1..Len(AlgOrder) : AlgOrder[i] = a].ok)

ScoreOf(all, a) == all[CHOOSE i \in 1..Len(AlgOrder) : AlgOrder[i] = a].score

\* mutant: the last key of minimum score
MinKeyLast(keys, all) ==
    keys[CHOOSE i \in 1..Len(keys) :
           /\ \A j \in 1..Len(keys) : ScoreOf(all, keys[i]) <= ScoreOf(all, keys[j])
           /\ \A j \in (i + 1)..Len(keys) : ScoreOf(all, keys[j]) # ScoreOf(all, keys[i])]

\* min(results.keys(), key=score): the first key of minimum score
MinKey(keys, all) ==
    keys[CHOOSE i \in 1..Len(keys) :
           /\ \A j \in 1..Len(keys) : ScoreOf(all, keys[i]) <= ScoreOf(all, keys[j])
           /\ \A j \in 1..(i - 1) : ScoreOf(all, keys[j]) # ScoreOf(all, keys[i])]

\* the keys that the request reads with self.adj[...]
Touched(alg, src) ==
    IF alg \in {"PRIM", "BEST"} THEN prim_run(src).touched ELSE {}

RECURSIVE TouchAll(_, _)
TouchAll(a, S) ==
    IF S = {} THEN a
    ELSE LET u == CHOOSE x \in S : \A y \in S : x <= y
         IN TouchAll(AdjTouch(a, u), S \ {u})

\* the body sent by handle_route
Reply(alg, src, dst) ==
    IF alg = "BEST"
    THEN LET all == AllResults(src, dst)
             keys == Succeeded(all)
         IN IF keys = <<>>
            THEN [status |-> 200, alg |-> alg, src |-> src, dst |-> dst, algorithm |-> "",
                  data |-> [ok |-> FALSE, label |-> "", message |-> "No algorithm found a path",
                            route |-> <<>>, total_distance |-> 0, total_risk |-> 0,
                            best_travel_date |-> None, score |-> 0]]
            ELSE LET best_alg == MinKey(keys, all)
                 IN [status |-> 200, alg |-> alg, src |-> src, dst |-> dst,
                     algorithm |-> best_alg,
                     data |-> all[CHOOSE i \in 1..Len(AlgOrder) : AlgOrder[i] = best_alg]]
    ELSE [status |-> 200, alg |-> alg, src |-> src, dst |-> dst, algorithm |-> "",
          data |-> compute(alg, src, dst)]

handle_route(src, dst, alg) ==
    IF src = 0 \/ dst = 0
    THEN /\ resp' = [status |-> 400, message |-> "Missing src or dst"]
         /\ adj' = adj
    ELSE IF src \notin DOMAIN cities \/ dst \notin DOMAIN cities
    THEN /\ resp' = [status |-> 400, message |-> "Invalid src/dst"]
         /\ adj' = adj
    ELSE /\ resp' = Reply(alg, src, dst)
         /\ adj' = TouchAll(adj, Touched(alg, src))

NoResp == [status |-> 0]
NoBd == [called |-> FALSE]

Init ==
    /\ cities = <<>>
    /\ adj = <<>>
    /\ risk = <<>>
    /\ dates = <<>>
    /\ pc = "cities"
    /\ resp = NoResp
    /\ bd = NoBd

\* Graph construction through the public methods, in any order
LoadAddC ==
    /\ \E cid \in LoadIds, sea \in LoadElevs : add_c(cid, sea)
    /\ UNCHANGED <<adj, risk, dates, pc, resp, bd>>

LoadAddEdge ==
    /\ NumEdges < 2 * MaxEdges
    /\ \E src \in LoadIds, dst \in LoadIds, d \in LoadDists : add_bidir_edge(src, dst, d)
    /\ UNCHANGED <<cities, risk, dates, pc, resp, bd>>

NextLoad == LoadAddC \/ LoadAddEdge

SpecLoad == Init /\ [][NextLoad]_vars

\* ------------------------------------------------------------------ main
\* the rows of cities.csv, edges.csv and weather_risk.csv that main reads
CityRows == {<<1, 0>>, <<2, 0>>, <<2, 1>>, <<3, 0>>}

EdgeRows == {<<1, 2, 1>>, <<2, 3, 1>>, <<1, 3, 9>>, <<2, 1, 9>>, <<2, 2, 1>>}

WeatherFiles == { <<<<1, 2, 0>>, <<2, 2, 2>>, <<1, 1, 2>>, <<2, 1, 0>>>> }

\* the src and dst parameters of a request; 0 is a missing parameter
ReqIds == Ids \cup {0}

Algs == {"BFS", "DFS", "PRIM", "KRUSKAL", "BELLMAN", "BEST"}

MainCity ==
    /\ pc = "cities"
    /\ \E row \in CityRows : add_c(row[1], row[2])
    /\ UNCHANGED <<adj, risk, dates, pc, resp, bd>>

MainEdge ==
    /\ pc \in {"cities", "edges"}
    /\ NumEdges < 2 * MaxEdges
    /\ \E row \in EdgeRows : add_bidir_edge(row[1], row[2], row[3])
    /\ pc' = "edges"
    /\ UNCHANGED <<cities, risk, dates, resp, bd>>

\* weather_risk.csv exists and is loaded, then the server starts
MainWeather ==
    /\ pc \in {"cities", "edges"}
    /\ \E rows \in WeatherFiles : load(rows)
    /\ pc' = "serve"
    /\ UNCHANGED <<cities, adj, resp, bd>>

\* weather_risk.csv does not exist
MainNoWeather ==
    /\ pc \in {"cities", "edges"}
    /\ pc' = "serve"
    /\ UNCHANGED <<cities, adj, risk, dates, resp, bd>>

\* do_GET on /route: the response is written
Route ==
    /\ pc = "serve"
    /\ \E src \in ReqIds, dst \in ReqIds, alg \in Algs : handle_route(src, dst, alg)
    /\ pc' = "sent"
    /\ UNCHANGED <<cities, risk, dates, bd>>

\* serve_forever: the handler has returned, the next request is awaited
Served ==
    /\ pc = "sent"
    /\ pc' = "serve"
    /\ resp' = NoResp
    /\ UNCHANGED <<cities, adj, risk, dates, bd>>

Next == MainCity \/ MainEdge \/ MainWeather \/ MainNoWeather \/ Route \/ Served

Spec == Init /\ [][Next]_vars

\* ------------------------------------------- best_date_for_path alone
RiskRows == {<<c, d, v>> : c \in {1, 2}, d \in {0, 1, 2}, v \in {0, 2}} \cup {<<0, 1, 2>>}

RowSeqs == UNION {[1..n -> RiskRows] : n \in 0..MaxRecords}

Routes == UNION {[1..n -> Ids] : n \in 0..3}

RiskLoad ==
    /\ pc = "cities"
    /\ \E rows \in RowSeqs : load(rows)
    /\ pc' = "serve"
    /\ UNCHANGED <<cities, adj, resp, bd>>

BestDate ==
    /\ pc = "serve"
    /\ \E route \in Routes :
          bd' = [called |-> TRUE, route |-> route,
                 date |-> best_date_for_path(route).date,
                 risk |-> best_date_for_path(route).risk]
    /\ UNCHANGED <<cities, adj, risk, dates, pc, resp>>

NextRisk == RiskLoad \/ BestDate

SpecRisk == Init /\ [][NextRisk]_vars

\* ======================================================== properties
FiveAlgs == Range(AlgOrder)

IndexOf(a) == CHOOSE i \in 1..Len(AlgOrder) : AlgOrder[i] = a

\* a /route request was answered with a computed result
Answered == pc = "sent" /\ resp.status = 200

\* there is a directed connection u -> v in the adjacency list
Connection(u, v) == \E i \in 1..Len(AdjGet(u)) : AdjGet(u)[i].dst = v

Count(u, v) == Cardinality({i \in 1..Len(AdjGet(u)) : AdjGet(u)[i].dst = v})

RECURSIVE ReachFrom(_)
ReachFrom(S) ==
    LET T == S \cup {v \in Ids : \E u \in S : Connection(u, v)}
    IN IF T = S THEN S ELSE ReachFrom(T)

Reachable(u, v) == v \in ReachFrom({u})

ValidRoute(r, src, dst) ==
    \/ r = <<>>
    \/ /\ r[1] = src
       /\ r[Len(r)] = dst
       /\ \A i \in 1..(Len(r) - 1) : Connection(r[i], r[i + 1])
       /\ (Len(r) = 1 => src = dst)

\* C1: the route returned by each of the five path algorithms is empty, or
\* starts at start, ends at dest and follows directed connections of the
\* adjacency list; it has one stop only when start equals dest.
Thm_C1_RouteValid ==
    (Answered /\ resp.alg \in FiveAlgs) => ValidRoute(resp.data.route, resp.src, resp.dst)

Wit_C1_RouteValid ==
    /\ Answered
    /\ resp.alg = "DFS"
    /\ Len(resp.data.route) = 3
    /\ Connection(resp.src, resp.dst)

\* C2: when dest is not reachable from start (both known, start # dest),
\* each of the five algorithms returns the empty route and compute returns
\* the failure result with message 'No route found'.
Thm_C2_Unreachable ==
    (Answered /\ resp.alg \in FiveAlgs /\ resp.src # resp.dst
       /\ ~Reachable(resp.src, resp.dst))
    => /\ resp.data.route = <<>>
       /\ resp.data.ok = FALSE
       /\ resp.data.message = "No route found"

Wit_C2_Unreachable ==
    /\ Answered
    /\ resp.alg = "BELLMAN"
    /\ resp.src # resp.dst
    /\ ~Reachable(resp.src, resp.dst)
    /\ AdjGet(resp.src) # <<>>
    /\ AdjGet(resp.dst) # <<>>
    /\ resp.data.ok = FALSE

\* C3: with alg = BEST the selected result has a score not above the score
\* of any algorithm that succeeded for the same (start, dest), and of the
\* algorithms sharing the minimum the earliest in the order BFS, DFS, PRIM,
\* KRUSKAL, BELLMAN is returned.
Thm_C3_BestMin ==
    (Answered /\ resp.alg = "BEST" /\ resp.data.ok)
    => LET each == [a \in FiveAlgs |-> compute(a, resp.src, resp.dst)]
       IN /\ resp.algorithm \in FiveAlgs
          /\ resp.data = each[resp.algorithm]
          /\ \A a \in FiveAlgs :
               each[a].ok
               => /\ resp.data.score <= each[a].score
                  /\ (resp.data.score = each[a].score
                        => IndexOf(resp.algorithm) <= IndexOf(a))

Wit_C3_BestMin ==
    /\ Answered
    /\ resp.alg = "BEST"
    /\ resp.data.ok
    /\ resp.algorithm = "DFS"
    /\ compute("BFS", resp.src, resp.dst).score > resp.data.score
    /\ compute("PRIM", resp.src, resp.dst).score = resp.data.score

\* C7: serving a route request, for one algorithm or for BEST, leaves the
\* location map, the adjacency list (its keys and every list), the risk
\* table and the date list as they were after load.
Thm_C7_ReadOnly ==
    [][(pc \in {"serve", "sent"}) => UNCHANGED <<cities, adj, risk, dates>>]_vars

Wit_C7_ReadOnly ==
    /\ Answered
    /\ resp.alg = "PRIM"
    /\ resp.src \notin AdjKeys
    /\ resp.src \notin DOMAIN risk
    /\ adj # <<>>
    /\ risk # <<>>

Connected == \A u \in DOMAIN cities : \A v \in DOMAIN cities : Reachable(u, v)

NoRevisit(r) == \A i \in 1..Len(r) : \A j \in 1..Len(r) : r[i] = r[j] => i = j

TreePairs(mst) == {{mst[i].src, mst[i].dst} : i \in 1..Len(mst)}

TreeOf(alg, src) == IF alg = "PRIM" THEN prim_mst_edges(src) ELSE kruskal_mst_edges

\* C8: on a connected graph the routes of prim_path and kruskal_path visit
\* no location twice and every consecutive pair is an edge of the spanning
\* tree the algorithm built; that tree has one edge less than locations.
Thm_C8_TreePath ==
    (Answered /\ resp.alg \in {"PRIM", "KRUSKAL"} /\ Connected)
    => LET tree == TreeOf(resp.alg, resp.src)
           pairs == TreePairs(tree)
       IN /\ resp.data.route # <<>>
          /\ NoRevisit(resp.data.route)
          /\ \A i \in 1..(Len(resp.data.route) - 1) :
               {resp.data.route[i], resp.data.route[i + 1]} \in pairs
          /\ Cardinality(pairs) = Cardinality(DOMAIN cities) - 1
          /\ Len(tree) = Cardinality(DOMAIN cities) - 1

Wit_C8_TreePath ==
    /\ Answered
    /\ resp.alg = "KRUSKAL"
    /\ Connected
    /\ Cardinality(DOMAIN cities) = 3
    /\ Len(resp.data.route) = 3
    /\ Connection(resp.src, resp.dst)

\* the heappops of the Prim construction run for the answered request
Pops == prim_run(resp.src).pops

\* C9 (as stated): of two frontier entries of equal directional cost the
\* one inserted earlier is popped first.
CE_C9_InsertionOrder ==
    (Answered /\ resp.alg = "PRIM")
    => LET pops == Pops
       IN \A k \in 1..Len(pops) :
            \A j \in 1..(pops[k].idx - 1) :
              pops[k].frontier[j][1] # pops[k].frontier[pops[k].idx][1]

\* C9 (amended): of two frontier entries of equal directional cost the one
\* with the smaller origin id, then the smaller destination id, is popped
\* first, whatever the order of insertion.
Thm_C9_TupleOrder ==
    (Answered /\ resp.alg = "PRIM")
    => LET pops == Pops
       IN \A k \in 1..Len(pops) :
            \A j \in 1..Len(pops[k].frontier) :
              LET t == pops[k].frontier[pops[k].idx]
                  o == pops[k].frontier[j]
              IN /\ t[1] <= o[1]
                 /\ (t[1] = o[1] => t[2] <= o[2])
                 /\ (t[1] = o[1] /\ t[2] = o[2] => t[3] <= o[3])

Wit_C9_TupleOrder ==
    /\ Answered
    /\ resp.alg = "PRIM"
    /\ LET pops == Pops
       IN \E k \in 1..Len(pops) :
            \E j \in 1..(pops[k].idx - 1) :
              /\ pops[k].frontier[j][1] = pops[k].frontier[pops[k].idx][1]
              /\ pops[k].frontier[j] # pops[k].frontier[pops[k].idx]

\* cheapest directed connection u -> v
MinCost(u, v) ==
    LET cs == {AdjGet(u)[i].real_dist : i \in {k \in 1..Len(AdjGet(u)) : AdjGet(u)[k].dst = v}}
    IN CHOOSE c \in cs : \A d \in cs : c <= d

RouteCost(r) == SumSeq([i \in 1..(Len(r) - 1) |-> MinCost(r[i], r[i + 1])])

\* every route from src to dst without a repeated location
SimpleRoutes(src, dst) ==
    {r \in UNION {[1..n -> DOMAIN cities] : n \in 1..Cardinality(DOMAIN cities)} :
        /\ r[1] = src
        /\ r[Len(r)] = dst
        /\ NoRevisit(r)
        /\ \A i \in 1..(Len(r) - 1) : Connection(r[i], r[i + 1])}

\* C10: when dest is reachable from start, bellman_path returns a route
\* whose summed directional costs are not above those of any other route
\* from start to dest.
Thm_C10_BellmanMin ==
    (Answered /\ resp.alg = "BELLMAN" /\ Reachable(resp.src, resp.dst))
    => LET all == SimpleRoutes(resp.src, resp.dst)
           cost == RouteCost(resp.data.route)
       IN /\ resp.data.ok
          /\ resp.data.route \in all
          /\ \A r \in all : cost <= RouteCost(r)

Wit_C10_BellmanMin ==
    /\ Answered
    /\ resp.alg = "BELLMAN"
    /\ Len(resp.data.route) = 3
    /\ Connection(resp.src, resp.dst)
    /\ RouteCost(resp.data.route) < MinCost(resp.src, resp.dst)

\* a date of the date list with an explicit entry for both ends of every segment
Feasible(route, d) ==
    \A i \in 1..(Len(route) - 1) :
        /\ route[i] \in DOMAIN risk
        /\ d \in DOMAIN risk[route[i]]
        /\ route[i + 1] \in DOMAIN risk
        /\ d \in DOMAIN risk[route[i + 1]]

FeasibleDates(route) == {d \in Range(dates) : Feasible(route, d)}

SummedRisk(route, d) ==
    SumSeq([i \in 1..(Len(route) - 1) |-> (risk[route[i]][d] + risk[route[i + 1]][d]) \div 2])

\* C4: for a route of at least 2 locations best_date_for_path never returns
\* a date on which a location of a segment has no explicit entry; it
\* returns the feasible date of minimum summed edge_risk, the earliest on a
\* tie; it returns (no date, 0.0) exactly when no date is feasible or the
\* route has fewer than 2 stops.
Thm_C4_BestDate ==
    bd.called
    => /\ (Len(bd.route) < 2 => bd.date = None /\ bd.risk = 0)
       /\ (Len(bd.route) >= 2 =>
             /\ (bd.date = None <=> FeasibleDates(bd.route) = {})
             /\ (bd.date = None => bd.risk = 0)
             /\ (bd.date # None =>
                   /\ bd.date \in FeasibleDates(bd.route)
                   /\ bd.risk = SummedRisk(bd.route, bd.date)
                   /\ \A d \in FeasibleDates(bd.route) :
                        /\ bd.risk <= SummedRisk(bd.route, d)
                        /\ (bd.risk = SummedRisk(bd.route, d) => bd.date <= d)))

Wit_C4_BestDate ==
    /\ bd.called
    /\ Len(bd.route) = 2
    /\ bd.route[1] # bd.route[2]
    /\ bd.date = 2
    /\ 1 \in FeasibleDates(bd.route)
    /\ SummedRisk(bd.route, 1) > bd.risk

\* C5 (as stated): every connected unordered pair holds exactly two
\* directed connections, one per direction, and no connection has its
\* origin equal to its destination.
CE_C5_ExactlyTwo ==
    \A u \in Ids : \A v \in Ids :
        Count(u, v) > 0 => (u # v /\ Count(u, v) = 1 /\ Count(v, u) = 1)

\* C5 (amended): for every pair of locations the adjacency list holds as
\* many connections in one direction as in the other, with the same map
\* distances; connections from a location to itself come in pairs; every
\* connection starts at the key of its list and joins known locations.
Thm_C5_Paired ==
    /\ \A u \in Ids : \A v \in Ids :
         /\ Count(u, v) = Count(v, u)
         /\ \A d \in LoadDists :
              Cardinality({i \in 1..Len(AdjGet(u)) :
                             AdjGet(u)[i].dst = v /\ AdjGet(u)[i].map_dist = d})
              = Cardinality({i \in 1..Len(AdjGet(v)) :
                               AdjGet(v)[i].dst = u /\ AdjGet(v)[i].map_dist = d})
    /\ \A u \in Ids : Count(u, u) % 2 = 0
    /\ \A k \in 1..Len(adj) : \A i \in 1..Len(adj[k][2]) :
         /\ adj[k][2][i].src = adj[k][1]
         /\ adj[k][2][i].src \in DOMAIN cities
         /\ adj[k][2][i].dst \in DOMAIN cities

Wit_C5_Paired ==
    /\ Count(1, 2) = 2
    /\ Count(2, 1) = 2
    /\ Count(1, 1) = 2

\* the step appended the connections A -> B and B -> A
Appended(A, B) ==
    /\ A # B
    /\ Len(AdjGetIn(adj', A)) = Len(AdjGet(A)) + 1
    /\ Len(AdjGetIn(adj', B)) = Len(AdjGet(B)) + 1
    /\ AdjGetIn(adj', A)[Len(AdjGetIn(adj', A))].dst = B
    /\ AdjGetIn(adj', B)[Len(AdjGetIn(adj', B))].dst = A

NewEdge(A) == AdjGetIn(adj', A)[Len(AdjGetIn(adj', A))]

\* the connection was built uphill from A to B over a positive map distance
Uphill(A, B) ==
    /\ Appended(A, B)
    /\ cities[A] # None
    /\ cities[B] # None
    /\ cities[A] < cities[B]
    /\ NewEdge(A).map_dist > 0

\* C6 (as stated): a connection built between A and B with elevation(A) <
\* elevation(B) and positive map distance costs strictly more from A to B
\* than from B to A, and both costs are at least 0.01.
CE_C6_StrictUphill ==
    [][\A A \in Ids : \A B \in Ids :
         Uphill(A, B) => /\ NewEdge(A).real_dist > NewEdge(B).real_dist
                         /\ NewEdge(A).real_dist >= FLOOR
                         /\ NewEdge(B).real_dist >= FLOOR]_vars

\* C6 (amended): the cost from A to B is at least the cost from B to A and
\* both are at least 0.01; it is strictly greater when map distance plus
\* elevation difference exceeds 0.01, and both are 0.01 otherwise.
Thm_C6_Uphill ==
    [][\A A \in Ids : \A B \in Ids :
         Uphill(A, B) =>
           LET up == NewEdge(A).map_dist + (cities[B] - cities[A])
           IN /\ NewEdge(A).real_dist >= NewEdge(B).real_dist
              /\ NewEdge(A).real_dist >= FLOOR
              /\ NewEdge(B).real_dist >= FLOOR
              /\ (up > FLOOR => NewEdge(A).real_dist > NewEdge(B).real_dist)
              /\ (up <= FLOOR => NewEdge(A).real_dist = FLOOR /\ NewEdge(B).real_dist = FLOOR)]_vars

Wit_C6_Uphill ==
    /\ 1 \in DOMAIN cities
    /\ 2 \in DOMAIN cities
    /\ cities[1] = 0
    /\ cities[2] = 1
    /\ \E i \in 1..Len(AdjGet(1)) : \E j \in 1..Len(AdjGet(2)) :
         /\ AdjGet(1)[i] = Edge(1, 2, 9, 10)
         /\ AdjGet(2)[j] = Edge(2, 1, 9, 8)
    /\ \E i \in 1..Len(AdjGet(1)) : \E j \in 1..Len(AdjGet(2)) :
         /\ AdjGet(1)[i] = Edge(1, 2, 1, FLOOR)
         /\ AdjGet(2)[j] = Edge(2, 1, 1, FLOOR)
====
